---- MODULE Spec2Model ----
(***************************************************************************)
(* The correlated request/response broker of mcp-web-capture.              *)
(*                                                                         *)
(* Three programs of the repository are modelled; Init fixes which runs:   *)
(*   "mcp"     : src/mcp-server/{main,websocket_manager,decorators}.py     *)
(*   "backend" : src/python-backend/{main,websocket_manager}.py            *)
(*   "server"  : src/python-backend/{server,websocket_server,              *)
(*               mcp_protocol}.py (MCPServer: authentication, task queue)  *)
(* "mcp" and "backend" share WebSocketManager (active_connections,         *)
(* pending_responses) and differ in how connections are admitted, how a    *)
(* command is targeted and whether a caller-supplied message_id is         *)
(* honoured.  "server" keeps its clients in MCPServer.clients.             *)
(*                                                                         *)
(* Every endpoint handler is an asyncio task: the code between two awaits  *)
(* is one atomic step.  A send_message call therefore has the positions    *)
(*   "sending" : exchange registered, `await websocket.send_json` pending  *)
(*   "waiting" : suspended in `await asyncio.wait_for(future, timeout)`    *)
(*   "done"    : left send_message (the finally clause has run)            *)
(***************************************************************************)
EXTENDS Integers, Sequences, FiniteSets, TLC

\* ------------------------------------------------------------------ bounds
MaxBrowsers == 2     \* websocket connections ever opened on /ws_browser
MaxCommands == 2     \* websocket connections ever opened on /ws_command
MaxSockets == 3      \* websocket connections ever opened on both endpoints
MaxCalls   == 2      \* send_message calls ever started
MaxRequests == 2     \* commands (well-formed or not) and tool calls ever received
MaxConns   == 2      \* server: connections ever accepted by WebSocketServer
MaxMsgs    == 2      \* server: messages ever read by handle_messages
MaxStarts  == 1      \* server: calls of MCPServer.start that took effect
MaxAdd     == 3      \* add tool: largest absolute value of an argument

\* --------------------------------------------------------- program constants
Variants == {"mcp", "backend", "server"}

connect_id == "browser-tools"

\* conn_id query parameter / target_conn_id / message_id that is absent or
\* empty: Python treats None and "" alike in `x or ...` and `if x`.
Absent == ""

\* What peers put in the conn_id query parameter.
ConnIdInputs == {Absent, connect_id}


\* What requesters put in the message_id field of a command.
MsgIdInputs == {Absent, "m1"}

\* message_id values a browser can send without having been told them.
GuessableIds == {"m1", "zz"}

\* Websocket objects, numbered per endpoint in the order they are opened.
Browsers == 1..MaxBrowsers
Commands == (MaxBrowsers + 1)..(MaxBrowsers + MaxCommands)
Sockets  == Browsers \cup Commands
Endpoint(w) == IF w \in Browsers THEN "browser" ELSE "command"
Calls   == 1..MaxCalls
Tool    == 0          \* owner of a call made by the `screenshot` MCP tool

\* str(uuid.uuid4()): distinct draws give distinct identifiers.  The draw
\* made by connect for websocket w and the draw made by send_message call k
\* are named after w and k.
ConnUuid(w) == "conn-uuid-" \o ToString(w)
MsgUuid(k)  == "msg-uuid-" \o ToString(k)

\* The exception messages of WebSocketManager.send_message.
ErrNoActive == "no active connections"
ErrNotFound == "target not found"
ErrTimeout  == "timeout"

\* The error object of websocket_send_command for a command without
\* 'command' or 'url'.
ErrInvalidCommand == "invalid command format"

\* ------------------------------------------------------------- dict helpers
\* active_connections is a Python dict: insertion ordered, assignment to an
\* existing key keeps its position.  Modelled as a sequence of [id, ws].
DictKeys(d) == {d[i].id : i \in DOMAIN d}

\* dict.get(key): the websocket or 0 (None)
DictGet(d, key) ==
    IF key \in DictKeys(d)
    THEN (CHOOSE e \in {d[i] : i \in DOMAIN d} : e.id = key).ws
    ELSE 0

\* d[key] = ws
DictSet(d, key, ws) ==
    IF key \in DictKeys(d)
    THEN [i \in DOMAIN d |-> IF d[i].id = key THEN [id |-> key, ws |-> ws] ELSE d[i]]
    ELSE Append(d, [id |-> key, ws |-> ws])

\* d.pop(key) when present
DictPop(d, key) == SelectSeq(d, LAMBDA e : e.id # key)

\* next(iter(d.values()))
DictFirst(d) == d[1].ws

\* pending_responses: a function from message ids to the call whose future
\* is stored there.
MapSet(m, key, v) == [x \in (DOMAIN m) \cup {key} |-> IF x = key THEN v ELSE m[x]]

\* pending_responses.pop(message_id, None)
MapPop(m, key) == [x \in (DOMAIN m) \ {key} |-> m[x]]

EmptyMap == [x \in {} |-> 0]

\* ------------------------------------------------------------------- state
VARIABLES
    variant,             \* which of the two brokers runs
    sock,                \* per websocket: handler position, endpoint, id, peer
    active_connections,  \* WebSocketManager.active_connections
    pending_responses,   \* WebSocketManager.pending_responses
    call,                \* per send_message call: position, owner, id, target, outcome
    future,              \* per call: the asyncio.Future it created
    sent,                \* per websocket: the messages the server transmitted to it
    nCalls,              \* send_message calls started so far
    nResolved,           \* replies that resolved a future so far
    lastReply,           \* set by a step that read a browser message or refused a
                         \* connection: what became of the input
    conn,                \* server: per connection, the position of handle_connection
    clients,             \* server: MCPServer.clients
    task_queue,          \* server: the tasks added to MCPServer.task_queue
    out,                 \* server: per connection, what the server sent on it
    nMsgs,               \* server: messages read by handle_messages so far
    nProcessed,          \* server: tasks the loop of process_tasks has taken
    handled,             \* server: the message the last step read, if it read one
    mcp_server,          \* server: MCPServer.running, the listener and the queue loop
    add_tool             \* the `add` MCP tool: its arguments and what it returned

\* The state of the FastAPI brokers ("mcp", "backend").
bvars == <<sock, active_connections, pending_responses, call, future,
           sent, nCalls, nResolved, lastReply>>

\* The state of MCPServer ("server").
svars == <<conn, clients, task_queue, out, nMsgs, nProcessed, handled, mcp_server>>

vars == <<variant, bvars, svars, add_tool>>

\* ---------------------------------------------------------------- messages
NoData == [has_id |-> FALSE, message_id |-> Absent, answers |-> 0, seq |-> 0, from |-> 0]

\* A message the server transmits: a forwarded command (call = the
\* send_message call that sent it), a response relayed to the requester
\* (data = the browser's reply) or an error object.
CommandMsg(mid, k) == [type |-> "command", message_id |-> mid, call |-> k,
                       data |-> NoData, error |-> ""]

ResponseMsg(data) == [type |-> "response", message_id |-> data.message_id, call |-> 0,
                      data |-> data, error |-> ""]

ErrorMsg(text) == [type |-> "error", message_id |-> Absent, call |-> 0,
                   data |-> NoData, error |-> text]

NoOutcome == [kind |-> "none", error |-> "", data |-> NoData]

Returned(data) == [kind |-> "return", error |-> "", data |-> data]

ConnectionError(text) == [kind |-> "ConnectionError", error |-> text, data |-> NoData]

OtherException == [kind |-> "Exception", error |-> "send failed", data |-> NoData]

CancelledError == [kind |-> "CancelledError", error |-> "", data |-> NoData]

NoCall == [pc |-> "unused", owner |-> 0, given |-> Absent, mid |-> Absent, target |-> 0,
           outcome |-> NoOutcome]

NoFuture == [state |-> "none", result |-> NoData]

NoSock == [state |-> "unused", kind |-> "none", id |-> Absent, peer |-> FALSE]

NoReply == "none"

\* websocket.close(code=4001, reason="Invalid connect_id")
CloseInvalidConnectId == "close 4001 Invalid connect_id"

\* ------------------------------------------------- MCPServer: constants
\* The shared secret of MCPServer (api_key or generate_api_key()).
api_key == "secret"

\* What a peer puts in the apiKey field of its auth message.
KeyInputs == {Absent, api_key, "wrong"}

\* MCPProtocol.handlers
Handlers == {"capture", "extract"}

\* What peers put in the command and id fields of a command.
CommandInputs == {Absent, "capture", "bogus"}
ExtractCommand == "extract"
IdInputs == {Absent, "c1"}

\* message.get('params', {})
DefaultParams == "{}"

\* Connections, numbered in the order in which WebSocketServer accepts them.
Conns == 1..MaxConns

\* client_id = str(uuid.uuid4()) of handle_connection for connection c, and
\* the command id drawn by handle_command for the n-th message read.
ClientUuid(c) == "client-uuid-" \o ToString(c)
CmdUuid(n) == "cmd-uuid-" \o ToString(n)

\* The messages of authenticate_client, handle_messages and MCPProtocol.
ErrAuthType      == "auth: invalid message type"
ErrAuthKey       == "auth: invalid api key"
ErrAuthTimeout   == "auth: timeout"
ErrAuthJson      == "auth: invalid json"
ErrAuthException == "auth: exception"
ErrNoCommand     == "missing command"
ErrUnknownCommand == "unknown command"
ErrNoUrl          == "missing parameter: url"

\* ---------------------------------------------- MCPServer: messages
\* What a peer sends: text that json.loads rejects, or a JSON object.
BadJson == [json |-> FALSE, type |-> Absent, apiKey |-> Absent, command |-> Absent,
            id |-> Absent, params |-> Absent, success |-> FALSE, result |-> Absent]

JsonMsg(type) == [json |-> TRUE, type |-> type, apiKey |-> Absent, command |-> Absent,
                  id |-> Absent, params |-> Absent, success |-> FALSE, result |-> Absent]

AuthMsg(key) == [JsonMsg("auth") EXCEPT !.apiKey = key]

CommandIn(command, id, params) ==
    [JsonMsg("command") EXCEPT !.command = command, !.id = id, !.params = params]

\* A 'response' message that does not report success.
ResponseIn(id, command) == [JsonMsg("response") EXCEPT !.id = id, !.command = command]

\* What an executor puts in the result field of a response that reports
\* success: nothing (or an empty object), a page that
\* _process_extract_result stores, a result that makes it raise (a
\* timestamp that is not ISO, a result that is not an object), a result
\* with neither content nor pageInfo.
ResultPage      == "page"
ResultRaises    == "raises"
ResultNoContent == "nocontent"

\* A 'response' message with success = true.
SuccessIn(id, command, result) ==
    [ResponseIn(id, command) EXCEPT !.success = TRUE, !.result = result]

\* The params of a command that carry a url.
ParamsWithUrl == "p1"

\* params.get('url')
Url(params) == IF params = ParamsWithUrl THEN "u1" ELSE Absent

\* A message carrying an id.
WithId(m, id) == [m EXCEPT !.id = id]

\* The first message of a connection, read by authenticate_client.
FirstMessages ==
    {BadJson, CommandIn("capture", "c1", "p1")} \cup {AuthMsg(k) : k \in KeyInputs}

\* The messages of an authenticated connection, read by handle_messages.
LaterMessages ==
    {BadJson, JsonMsg(Absent), JsonMsg("ping"), AuthMsg(api_key)}
    \cup {CommandIn(c, i, "p1") : c \in CommandInputs, i \in IdInputs}
    \cup {CommandIn("capture", "c1", Absent)}
    \cup {WithId(JsonMsg(Absent), "c1"), WithId(JsonMsg("status"), "c1")}
    \cup {ResponseIn("c1", Absent), ResponseIn(Absent, "extract"),
          ResponseIn("c1", "extract"), ResponseIn("c1", "bogus")}

\* The messages of an extract exchange: the command, with or without id and
\* url, and the responses an executor may give.
ExtractMessages ==
    {CommandIn(ExtractCommand, "c1", ParamsWithUrl),
     CommandIn(ExtractCommand, Absent, ParamsWithUrl),
     CommandIn(ExtractCommand, "c1", Absent),
     ResponseIn("c1", ExtractCommand)}
    \cup {SuccessIn("c1", ExtractCommand, r) : r \in {Absent, ResultPage, ResultRaises, ResultNoContent}}

NoMsg == [json |-> FALSE, type |-> "none", apiKey |-> Absent, command |-> Absent,
          id |-> Absent, params |-> Absent, success |-> FALSE, result |-> Absent]

NoHandled == [conn |-> 0, msg |-> NoMsg]

\* What the server sends on a connection; `delivered` tells whether the
\* peer was there to receive it.
OutMsg(type) == [type |-> type, id |-> Absent, clientId |-> Absent, command |-> Absent,
                 text |-> "", delivered |-> FALSE]

\* WebSocketServer.send_error / MCPProtocol.send_error: the id is put in
\* only when one is given.
ErrorOut(text, command_id) == [OutMsg("error") EXCEPT !.text = text, !.id = command_id]

AuthResponse(client_id) == [OutMsg("auth_response") EXCEPT !.clientId = client_id]

CommandReceived(command_id, command) ==
    [OutMsg("command_received") EXCEPT !.id = command_id, !.command = command]

Pong == OutMsg("pong")

\* ExtractHandler.handle_command: extract_command
SubRequest(command_id, command) ==
    [OutMsg("command") EXCEPT !.id = command_id, !.command = command]

\* _process_extract_result: the extract_complete message
ExtractComplete(command_id) == [OutMsg("extract_complete") EXCEPT !.id = command_id]

\* The task handle_command builds.
Task(command_id, client_id, command, params) ==
    [id |-> command_id, client_id |-> client_id, command |-> command, params |-> params]

NoJob == [id |-> Absent, command |-> Absent]

NoConn == [state |-> "unused", peer |-> FALSE, job |-> NoJob]

\* MCPServer after __init__: running is False, WebSocketServer.server is
\* None ("none"; "serving" once serve() returned, "closing" from
\* server.close() until wait_closed returns), process_tasks not started;
\* `call` is the latest call of start or stop and whether it returned at
\* its first test.
Constructed == [running |-> FALSE, server |-> "none", queue |-> "idle", starts |-> 0,
                call |-> "none"]

\* The `add` tool has not been invoked.
NoAdd == [called |-> FALSE, a |-> 0, b |-> 0, result |-> 0]

\* ------------------------------------------------------------------- Init
\* The brokers and MCPServer after construction.
Constructs ==
    /\ variant \in Variants
    /\ sock = [w \in Sockets |-> NoSock]
    /\ active_connections = <<>>
    /\ pending_responses = EmptyMap
    /\ call = [k \in Calls |-> NoCall]
    /\ future = [k \in Calls |-> NoFuture]
    /\ sent = [w \in Sockets |-> <<>>]
    /\ nCalls = 0
    /\ nResolved = 0
    /\ lastReply = NoReply
    /\ conn = [c \in Conns |-> NoConn]
    /\ clients = EmptyMap
    /\ task_queue = <<>>
    /\ out = [c \in Conns |-> <<>>]
    /\ nMsgs = 0
    /\ nProcessed = 0
    /\ handled = NoHandled
    /\ mcp_server = Constructed

Init == Constructs /\ add_tool = NoAdd

\* A step of one of the FastAPI brokers: MCPServer is not running.
Broker == variant # "server" /\ UNCHANGED <<svars, add_tool>>

\* A step of MCPServer: the FastAPI brokers are not running.
Server == variant = "server" /\ UNCHANGED <<variant, bvars, add_tool>>

\* A step of a connection handler of MCPServer: start and stop take no part.
Handler == Server /\ UNCHANGED <<mcp_server, nProcessed>>

\* ------------------------------------------------ connection registry
\* Mutant of validate_connect_id: a request without conn_id passes.
validate_connect_id_AbsentPasses(conn_id) == conn_id \in {connect_id, Absent}

\* decorators.validate_connect_id: the handler runs only for this conn_id
validate_connect_id(conn_id) == conn_id = connect_id

\* main.get_browser_conn_id
get_browser_conn_id(conn_id) == "ws_browser:" \o conn_id

\* Whether the endpoint admits a connection request (mcp: the decorator
\* closes everything else with code 4001; backend: no check).
Admitted(conn_id) == variant = "mcp" => validate_connect_id(conn_id)

\* The conn_id the endpoint hands to ws_manager.connect.
EndpointConnId(endpoint, conn_id) ==
    IF variant = "mcp" /\ endpoint = "browser"
    THEN get_browser_conn_id(conn_id)
    ELSE conn_id

\* WebSocketManager.connect: `conn_id or str(uuid.uuid4())`
ConnIdOrUuid(conn_id, w) == IF conn_id # Absent THEN conn_id ELSE ConnUuid(w)

\* WebSocketManager.connect: active_connections[conn_id] = websocket
connect(ac, w, conn_id) == DictSet(ac, conn_id, w)

\* Mutant of disconnect: the entry is not removed.
disconnect_Keeps(ac, conn_id) == ac

\* Mutant of disconnect: an id that is not registered removes the entry
\* registered last.
disconnect_PopsLastOnMiss(ac, conn_id) ==
    IF conn_id \in DictKeys(ac) THEN DictPop(ac, conn_id)
    ELSE SubSeq(ac, 1, Len(ac) - 1)

\* WebSocketManager.disconnect
disconnect(ac, conn_id) == IF conn_id \in DictKeys(ac) THEN DictPop(ac, conn_id) ELSE ac

\* The peer's end is open and the handler has not returned.
Alive(w) == sock[w].peer /\ sock[w].state \in {"receiving", "inCall"}

\* Websockets are numbered in the order in which peers open them.
NextSocket(w) ==
    /\ \A v \in Sockets : (v < w /\ Endpoint(v) = Endpoint(w)) => sock[v].state # "unused"
    /\ Cardinality({v \in Sockets : sock[v].state # "unused"}) < MaxSockets

\* The conn_id values offered to the endpoints of broker v: those of mcp,
\* which checks them, are also offered one that is not settings.connect_id.
ConnIdsOffered(v) == IF v = "mcp" THEN ConnIdInputs \cup {"other-tools"} ELSE ConnIdInputs

\* A peer opens a websocket on /ws_browser or /ws_command and the decorator
\* (mcp) refuses it: close(code=4001), the handler never runs and nothing
\* of the connection is kept.
ConnectRejected(w, conn_id) ==
    /\ sock[w].state = "unused"
    /\ NextSocket(w)
    /\ ~Admitted(conn_id)
    /\ lastReply' = CloseInvalidConnectId
    /\ Broker
    /\ UNCHANGED <<variant, sock, active_connections, pending_responses, call, future,
                   sent, nCalls, nResolved>>

\* A peer opens a websocket and the endpoint registers it:
\* websocket_browser / websocket_send_command up to the first receive_json.
Connect(w, conn_id) ==
    /\ lastReply' = NoReply
    /\ Broker
    /\ sock[w].state = "unused"
    /\ NextSocket(w)
    /\ Admitted(conn_id)
    /\ LET given == EndpointConnId(Endpoint(w), conn_id)
           id    == ConnIdOrUuid(given, w)
       IN /\ active_connections' = connect(active_connections, w, id)
          /\ sock' = [sock EXCEPT ![w] = [state |-> "receiving", kind |-> Endpoint(w),
                                          id |-> id, peer |-> TRUE]]
    /\ UNCHANGED <<variant, pending_responses, call, future, sent, nCalls, nResolved>>

\* The peer of a requester closes its end while the handler is suspended in
\* send_message; the handler learns of it at its next send or receive.
ClientClose(w) ==
    /\ lastReply' = NoReply
    /\ Broker
    /\ sock[w].state = "inCall"
    /\ sock[w].peer
    /\ sock' = [sock EXCEPT ![w].peer = FALSE]
    /\ UNCHANGED <<variant, active_connections, pending_responses, call, future,
                   sent, nCalls, nResolved>>

\* The handler leaves its loop through an except clause:
\* ws_manager.disconnect(conn_id), then the handler returns.
HandlerEnds(w) ==
    /\ active_connections' = disconnect(active_connections, sock[w].id)
    /\ sock' = [sock EXCEPT ![w].state = "ended", ![w].peer = FALSE]

\* The peer closes (or has closed) its end and receive_json raises
\* WebSocketDisconnect in the endpoint loop.
HandlerDisconnect(w) ==
    /\ lastReply' = NoReply
    /\ Broker
    /\ sock[w].state = "receiving"
    /\ active_connections' = disconnect(active_connections, sock[w].id)
    /\ sock' = [sock EXCEPT ![w].state = "ended", ![w].peer = FALSE]
    /\ UNCHANGED <<variant, pending_responses, call, future, sent, nCalls, nResolved>>

\* receive_json raises on a frame that is not JSON (json.JSONDecodeError),
\* or the loop body raises on a JSON value that is not an object: except
\* Exception, ws_manager.disconnect(conn_id), the handler returns.
ReceiveJsonRaises(w) ==
    /\ lastReply' = "bad_json"
    /\ Broker
    /\ sock[w].state = "receiving"
    /\ sock[w].peer
    /\ HandlerEnds(w)
    /\ UNCHANGED <<variant, pending_responses, call, future, sent, nCalls, nResolved>>

\* The error objects sent so far for malformed commands.
Malformed == UNION {{<<w, i>> : i \in {j \in DOMAIN sent[w] : sent[w][j] = ErrorMsg(ErrInvalidCommand)}}
                    : w \in Sockets}

\* The commands and tool calls received so far.
Requests == nCalls + Cardinality(Malformed)

\* websocket_send_command: a JSON object without 'command' or without 'url'
\* is answered with an error object and the loop goes on.
MalformedCommand(w) ==
    /\ lastReply' = "malformed"
    /\ Broker
    /\ sock[w].state = "receiving"
    /\ sock[w].kind = "command"
    /\ sock[w].peer
    /\ Requests < MaxRequests
    /\ sent' = [sent EXCEPT ![w] = Append(@, ErrorMsg(ErrInvalidCommand))]
    /\ UNCHANGED <<variant, sock, active_connections, pending_responses, call, future,
                   nCalls, nResolved>>

\* ------------------------------------------------------- send_message
\* Mutant of ResolveTarget: a target that is not found falls back to the
\* first registered connection.
ResolveTarget_Fallback(ac, target_conn_id) ==
    IF ac = <<>>
    THEN [error |-> ErrNoActive, ws |-> 0]
    ELSE LET websocket == IF target_conn_id # Absent /\ DictGet(ac, target_conn_id) # 0
                          THEN DictGet(ac, target_conn_id)
                          ELSE DictFirst(ac)
         IN [error |-> "", ws |-> websocket]

\* send_message, target resolution: the websocket, or the ConnectionError.
ResolveTarget(ac, target_conn_id) ==
    IF ac = <<>>
    THEN [error |-> ErrNoActive, ws |-> 0]
    ELSE LET websocket == IF target_conn_id # Absent
                          THEN DictGet(ac, target_conn_id)
                          ELSE DictFirst(ac)
         IN IF websocket = 0
            THEN [error |-> ErrNotFound, ws |-> 0]
            ELSE [error |-> "", ws |-> websocket]

\* Mutant of ExchangeId: the id of the payload is ignored.
ExchangeId_AlwaysFresh(v, given, k) == MsgUuid(k)

\* send_message, the exchange id: mcp keeps a non-empty message_id of the
\* message, backend always draws one.
ExchangeId(v, given, k) == IF v = "mcp" /\ given # Absent THEN given ELSE MsgUuid(k)


\* Mutant of Cleanup: the finally clause is missing.
Cleanup_Missing(pr, message_id) == pr

\* finally: self.pending_responses.pop(message_id, None)
Cleanup(pr, message_id) == MapPop(pr, message_id)

\* The target_conn_id a /ws_command handler passes for a command.
CommandTarget(w) == IF variant = "mcp" THEN get_browser_conn_id(sock[w].id) ELSE Absent

\* The target_conn_id the screenshot tool passes.
ToolTarget == IF variant = "mcp" THEN get_browser_conn_id(connect_id) ELSE connect_id

\* The except ConnectionError clause and the normal path send one object
\* to the requester and go back to receive_json.  When the requester's peer
\* is gone the send or the receive_json after it raises: the handler ends.
Relay(w, msg) ==
    IF Alive(w)
    THEN /\ sent' = [sent EXCEPT ![w] = Append(@, msg)]
         /\ sock' = [sock EXCEPT ![w].state = "receiving"]
         /\ UNCHANGED active_connections
    ELSE /\ HandlerEnds(w)
         /\ UNCHANGED sent

\* What the caller of send_message does with its outcome: the screenshot
\* tool returns a string; a /ws_command handler relays the response or the
\* ConnectionError, and is ended by any other exception (except Exception:
\* disconnect).
AfterSendMessage(owner, outcome) ==
    IF owner = Tool
    THEN UNCHANGED <<sock, sent, active_connections>>
    ELSE IF outcome.kind = "return"
    THEN Relay(owner, ResponseMsg(outcome.data))
    ELSE IF outcome.kind = "ConnectionError"
    THEN Relay(owner, ErrorMsg(outcome.error))
    ELSE /\ HandlerEnds(owner)
         /\ UNCHANGED sent

\* send_message from its first line to `await websocket.send_json`:
\* it raises ConnectionError at once, or registers the exchange.
StartCall(owner, target_conn_id, given) ==
    LET k == nCalls + 1
        r == ResolveTarget(active_connections, target_conn_id)
        message_id == ExchangeId(variant, given, k)
    IN /\ nCalls < MaxCalls
       /\ Requests < MaxRequests
       /\ lastReply' = NoReply
       /\ Broker
       /\ nCalls' = k
       /\ IF r.error # ""
          THEN /\ call' = [call EXCEPT ![k] = [pc |-> "done", owner |-> owner,
                              given |-> given, mid |-> Absent, target |-> 0,
                              outcome |-> ConnectionError(r.error)]]
               /\ AfterSendMessage(owner, ConnectionError(r.error))
               /\ UNCHANGED <<pending_responses, future>>
          ELSE /\ call' = [call EXCEPT ![k] = [pc |-> "sending", owner |-> owner,
                              given |-> given, mid |-> message_id, target |-> r.ws,
                              outcome |-> NoOutcome]]
               /\ future' = [future EXCEPT ![k] = [state |-> "pending", result |-> NoData]]
               /\ pending_responses' = MapSet(pending_responses, message_id, k)
               /\ sock' = IF owner = Tool THEN sock
                          ELSE [sock EXCEPT ![owner].state = "inCall"]
               /\ UNCHANGED <<sent, active_connections>>
       /\ UNCHANGED <<variant, nResolved>>

\* A well-formed command arrives on /ws_command connection w.
Command(w, given) ==
    /\ sock[w].state = "receiving"
    /\ sock[w].kind = "command"
    /\ sock[w].peer
    /\ StartCall(w, CommandTarget(w), IF variant = "mcp" THEN given ELSE Absent)

\* The screenshot MCP tool is invoked.
ToolCall ==
    StartCall(Tool, ToolTarget, Absent)

\* send_message leaves through its finally clause with `outcome`.
ExitCall(k, outcome) ==
    /\ pending_responses' = Cleanup(pending_responses, call[k].mid)
    /\ call' = [call EXCEPT ![k].pc = "done", ![k].outcome = outcome]
    /\ AfterSendMessage(call[k].owner, outcome)

\* `await websocket.send_json(message)` completes: the command is on the
\* target's channel and the caller goes on to wait_for.
SendJson(k) ==
    /\ lastReply' = NoReply
    /\ Broker
    /\ call[k].pc = "sending"
    /\ Alive(call[k].target)
    /\ sent' = [sent EXCEPT ![call[k].target] = Append(@, CommandMsg(call[k].mid, k))]
    /\ call' = [call EXCEPT ![k].pc = "waiting"]
    /\ UNCHANGED <<variant, sock, active_connections, pending_responses, future,
                   nCalls, nResolved>>

\* send_json on a websocket whose peer is gone and the transport does not
\* notice: the command is lost and the caller goes on to wait_for.
SendJsonLost(k) ==
    /\ lastReply' = NoReply
    /\ Broker
    /\ call[k].pc = "sending"
    /\ ~sock[call[k].target].peer
    /\ sock[call[k].target].state # "ended"
    /\ call' = [call EXCEPT ![k].pc = "waiting"]
    /\ UNCHANGED <<variant, sock, active_connections, pending_responses, future,
                   sent, nCalls, nResolved>>

\* send_json raises (closed websocket): not a TimeoutError, so it leaves
\* send_message as it is, through finally.
SendJsonRaises(k) ==
    /\ lastReply' = NoReply
    /\ Broker
    /\ call[k].pc = "sending"
    /\ ~Alive(call[k].target)
    /\ ExitCall(k, OtherException)
    /\ UNCHANGED <<variant, future, nCalls, nResolved>>

\* ------------------------------------------------------ handle_response
\* asyncio.Future.done()
FutureDone(f) == f.state # "pending"

\* Mutant of handle_response: set_result without the `if not future.done()`.
handle_response_NoDoneCheck(fu, pr, data) ==
    LET message_id == data.message_id
    IN IF message_id \in DOMAIN pr
       THEN [fu EXCEPT ![pr[message_id]] = [state |-> "result", result |-> data]]
       ELSE fu

\* Mutant of handle_response: the reply resolves every pending exchange.
handle_response_Broadcast(fu, pr, data) ==
    [k \in DOMAIN fu |-> IF fu[k].state = "pending"
                         THEN [state |-> "result", result |-> data]
                         ELSE fu[k]]

\* Mutant of handle_response: a reply with an unknown id is handed to the
\* exchanges that are pending.
handle_response_Fallback(fu, pr, data) ==
    LET message_id == data.message_id
    IN IF message_id \in DOMAIN pr
       THEN IF fu[pr[message_id]].state = "pending"
            THEN [fu EXCEPT ![pr[message_id]] = [state |-> "result", result |-> data]]
            ELSE fu
       ELSE [k \in DOMAIN fu |-> IF k \in {pr[m] : m \in DOMAIN pr} /\ fu[k].state = "pending"
                                 THEN [state |-> "result", result |-> data]
                                 ELSE fu[k]]

\* WebSocketManager.handle_response: the futures after it ran on `data`.
handle_response(fu, pr, data) ==
    LET message_id == data.message_id
    IN IF message_id \in DOMAIN pr
       THEN IF ~FutureDone(fu[pr[message_id]])
            THEN [fu EXCEPT ![pr[message_id]] = [state |-> "result", result |-> data]]
            ELSE fu
       ELSE fu

\* What handle_response did with `data` (the branch it took).
ResponseEffect(fu, pr, data) ==
    IF ~data.has_id THEN "no_id"
    ELSE IF data.message_id \notin DOMAIN pr THEN "unknown"
    ELSE IF FutureDone(fu[pr[data.message_id]]) THEN "already_done"
    ELSE "resolved"

\* The JSON objects a browser peer on websocket w may send: one without
\* message_id, an answer to a command it was sent (echoing its message_id),
\* or one carrying an id it made up.  `seq` stands for the payload: the
\* payload of a reply differs from that of every reply accepted before it;
\* `from` is the websocket receive_json read it from.
BrowserData(w, n) ==
    {[has_id |-> FALSE, message_id |-> Absent, answers |-> 0, seq |-> n, from |-> w]}
    \cup {[has_id |-> TRUE, message_id |-> sent[w][i].message_id,
           answers |-> sent[w][i].call, seq |-> n, from |-> w] : i \in DOMAIN sent[w]}
    \cup {[has_id |-> TRUE, message_id |-> m, answers |-> 0, seq |-> n, from |-> w] : m \in GuessableIds}

\* websocket_browser: one turn of the loop, receive_json returned `data`.
BrowserMessage(w, data) ==
    /\ sock[w].state = "receiving"
    /\ sock[w].kind = "browser"
    /\ sock[w].peer
    /\ data \in BrowserData(w, nResolved + 1)
    /\ nResolved' = IF ResponseEffect(future, pending_responses, data) = "resolved"
                    THEN nResolved + 1 ELSE nResolved
    /\ future' = IF data.has_id
                 THEN handle_response(future, pending_responses, data)
                 ELSE future
    /\ lastReply' = ResponseEffect(future, pending_responses, data)
    /\ Broker
    /\ UNCHANGED <<variant, sock, active_connections, pending_responses, call,
                   sent, nCalls>>

\* ------------------------------------------------- wait_for and the exit
TimeoutError == [kind |-> "TimeoutError", error |-> "", data |-> NoData]

\* What `await asyncio.wait_for(future, timeout)` gives: the result of the
\* future, or TimeoutError once the future is cancelled by the timeout.
WaitFor(f) == IF f.state = "result" THEN Returned(f.result) ELSE TimeoutError

\* Mutant of SendMessageOutcome: the except clause is missing.
SendMessageOutcome_NoExcept(o) == o

\* return response / except asyncio.TimeoutError: raise ConnectionError(...)
SendMessageOutcome(o) ==
    IF o.kind = "TimeoutError" THEN ConnectionError(ErrTimeout) ELSE o

\* The reply has set the future's result and the caller is resumed:
\* wait_for returns it and send_message is left through finally.
Resume(k) ==
    /\ lastReply' = NoReply
    /\ Broker
    /\ call[k].pc = "waiting"
    /\ future[k].state = "result"
    /\ ExitCall(k, SendMessageOutcome(WaitFor(future[k])))
    /\ UNCHANGED <<variant, future, nCalls, nResolved>>

\* Mutant of Timeout: the future is awaited without a timeout.
Timeout_Never(k) ==
    /\ FALSE
    /\ UNCHANGED vars

\* The timeout of asyncio.wait_for elapses while the future is pending:
\* wait_for cancels the future and raises TimeoutError into send_message.
Timeout(k) ==
    /\ lastReply' = NoReply
    /\ Broker
    /\ call[k].pc = "waiting"
    /\ ~FutureDone(future[k])
    /\ future' = [future EXCEPT ![k].state = "cancelled"]
    /\ ExitCall(k, SendMessageOutcome(WaitFor(future'[k])))
    /\ UNCHANGED <<variant, nCalls, nResolved>>

\* The task running the screenshot tool is cancelled inside send_message:
\* CancelledError passes through finally.
CancelCall(k) ==
    /\ lastReply' = NoReply
    /\ Broker
    /\ call[k].owner = Tool
    /\ call[k].pc \in {"sending", "waiting"}
    /\ future' = [future EXCEPT ![k].state = IF @ = "pending" THEN "cancelled" ELSE @]
    /\ ExitCall(k, CancelledError)
    /\ UNCHANGED <<variant, nCalls, nResolved>>

\* ------------------------------------------------------------ MCPServer
\* utils.security.validate_api_key(api_key, self.server.api_key): the single
\* shared-secret check.
validate_api_key(key) == key = api_key

\* MCPServer.register_client
register_client(cl, client_id, websocket, now) ==
    MapSet(cl, client_id, [websocket |-> websocket, last_activity |-> now, tasks |-> <<>>])

\* MCPServer.unregister_client
unregister_client(cl, client_id) ==
    IF client_id \in DOMAIN cl THEN MapPop(cl, client_id) ELSE cl

\* TaskQueue.add_task
add_task(q, task) == Append(q, task)

\* `await websocket.send(...)` on connection c: the message reaches the peer
\* when the peer is there.
WsSend(o, c, msg) == [o EXCEPT ![c] = Append(@, [msg EXCEPT !.delivered = conn[c].peer])]

\* MCPProtocol.send_message: nothing is sent for a client that is not
\* registered; a failure of websocket.send is logged.
send_message(o, cl, c, msg) ==
    IF ClientUuid(c) \in DOMAIN cl THEN WsSend(o, c, msg) ELSE o

\* Mutant of authenticate_client: the API key is not validated.
authenticate_client_NoKeyCheck(m) ==
    IF ~m.json THEN ErrAuthJson
    ELSE IF m.type # "auth" THEN ErrAuthType
    ELSE ""

\* authenticate_client, the checks on the first message: the error it
\* reports, or "" when the message authenticates the client.
authenticate_client(m) ==
    IF ~m.json THEN ErrAuthJson
    ELSE IF m.type # "auth" THEN ErrAuthType
    ELSE IF ~validate_api_key(m.apiKey) THEN ErrAuthKey
    ELSE ""

NextConn(c) == \A b \in Conns : b < c => conn[b].state # "unused"

\* handle_connection, when it returns: finally unregister_client(client_id),
\* and the connection is closed.
ConnectionEnds(c) ==
    /\ clients' = unregister_client(clients, ClientUuid(c))
    /\ conn' = [conn EXCEPT ![c].state = "closed", ![c].peer = FALSE]

\* A peer connects: handle_connection draws client_id and waits for the
\* first message.
Open(c) ==
    /\ Handler
    /\ mcp_server.server = "serving"
    /\ conn[c].state = "unused"
    /\ NextConn(c)
    /\ conn' = [conn EXCEPT ![c].state = "auth", ![c].peer = TRUE]
    /\ handled' = NoHandled
    /\ UNCHANGED <<clients, task_queue, out, nMsgs>>

\* The peer closes its end; what it sent before may still be read.
PeerClose(c) ==
    /\ Handler
    /\ conn[c].state \in {"auth", "active", "acking"}
    /\ conn[c].peer
    /\ conn' = [conn EXCEPT ![c].peer = FALSE]
    /\ handled' = NoHandled
    /\ UNCHANGED <<clients, task_queue, out, nMsgs>>

\* Mutant of Auth: a first message that fails the checks closes the
\* connection without an error message.
Auth_SilentClose(c, m) ==
    /\ Handler
    /\ conn[c].state = "auth"
    /\ handled' = [conn |-> c, msg |-> m]
    /\ LET e == authenticate_client(m)
       IN IF e # ""
          THEN /\ out' = out
               /\ ConnectionEnds(c)
          ELSE /\ out' = WsSend(out, c, AuthResponse(ClientUuid(c)))
               /\ clients' = register_client(clients, ClientUuid(c), c, nMsgs)
               /\ conn' = [conn EXCEPT ![c].state = "active"]
    /\ UNCHANGED <<task_queue, nMsgs>>

\* authenticate_client read the first message m: an error and return False
\* (handle_connection returns), or auth_response, return True and
\* register_client.
Auth(c, m) ==
    /\ Handler
    /\ conn[c].state = "auth"
    /\ handled' = [conn |-> c, msg |-> m]
    /\ LET e == authenticate_client(m)
       IN IF e # ""
          THEN /\ out' = WsSend(out, c, ErrorOut(e, Absent))
               /\ ConnectionEnds(c)
          ELSE /\ out' = WsSend(out, c, AuthResponse(ClientUuid(c)))
               /\ clients' = register_client(clients, ClientUuid(c), c, nMsgs)
               /\ conn' = [conn EXCEPT ![c].state = "active"]
    /\ UNCHANGED <<task_queue, nMsgs>>

\* The first message authenticates the client but the peer is gone and
\* websocket.send(auth_response) raises: except Exception sends an error
\* and returns False.
AuthSendRaises(c, m) ==
    /\ Handler
    /\ conn[c].state = "auth"
    /\ ~conn[c].peer
    /\ authenticate_client(m) = ""
    /\ handled' = [conn |-> c, msg |-> m]
    /\ out' = WsSend(WsSend(out, c, AuthResponse(ClientUuid(c))), c,
                     ErrorOut(ErrAuthException, Absent))
    /\ ConnectionEnds(c)
    /\ UNCHANGED <<task_queue, nMsgs>>

\* No first message within auth_timeout: asyncio.TimeoutError.
AuthTimeout(c) ==
    /\ Handler
    /\ conn[c].state = "auth"
    /\ conn[c].peer
    /\ handled' = NoHandled
    /\ out' = WsSend(out, c, ErrorOut(ErrAuthTimeout, Absent))
    /\ ConnectionEnds(c)
    /\ UNCHANGED <<task_queue, nMsgs>>

\* The peer closed before a first message: recv raises ConnectionClosed,
\* which except Exception reports (to nobody) before returning False.
AuthClosed(c) ==
    /\ Handler
    /\ conn[c].state = "auth"
    /\ ~conn[c].peer
    /\ handled' = NoHandled
    /\ out' = WsSend(out, c, ErrorOut(ErrAuthException, Absent))
    /\ ConnectionEnds(c)
    /\ UNCHANGED <<task_queue, nMsgs>>

\* Mutant of CommandId: the id of the message is ignored.
CommandId_AlwaysNew(m, n) == CmdUuid(n)

\* handle_command: message.get('id') or str(uuid.uuid4())
CommandId(m, n) == IF m.id # Absent THEN m.id ELSE CmdUuid(n)

\* handle_command: message.get('params', {})
CommandParams(m) == IF m.params # Absent THEN m.params ELSE DefaultParams

\* Mutant of KnownCommand: the handler lookup is not guarded.
KnownCommand_Any(command) == TRUE

\* handle_command: `command in self.handlers`
KnownCommand(command) == command \in Handlers

\* self.server.clients[client_id]['tasks'].append(command_id)
AppendTask(cl, client_id, command_id) ==
    IF client_id \in DOMAIN cl
    THEN [cl EXCEPT ![client_id].tasks = Append(@, command_id)]
    ELSE cl

\* MCPProtocol.handle_command up to the acknowledgment: an error for a
\* command without name or without handler; otherwise the task is noted in
\* the client's task list and added to the queue, and the acknowledgment is
\* what the handler does next.  `cl` is the clients table as handle_messages
\* left it.
handle_command(c, m, cl) ==
    LET command == m.command
        command_id == CommandId(m, nMsgs + 1)
    IN IF command = Absent
       THEN /\ out' = send_message(out, cl, c, ErrorOut(ErrNoCommand, command_id))
            /\ clients' = cl
            /\ UNCHANGED <<conn, task_queue>>
       ELSE IF ~KnownCommand(command)
       THEN /\ out' = send_message(out, cl, c, ErrorOut(ErrUnknownCommand, command_id))
            /\ clients' = cl
            /\ UNCHANGED <<conn, task_queue>>
       ELSE /\ clients' = AppendTask(cl, ClientUuid(c), command_id)
            /\ task_queue' = add_task(task_queue,
                                Task(command_id, ClientUuid(c), command, CommandParams(m)))
            /\ conn' = [conn EXCEPT ![c].state = "acking",
                                    ![c].job = [id |-> command_id, command |-> command]]
            /\ UNCHANGED out

\* ExtractHandler._process_extract_result: nothing for a result with
\* neither content nor pageInfo; otherwise the page is stored and
\* extract_complete is sent, or the exception raised on the way is reported
\* with send_error; both carry command_id.
process_extract_result(o, cl, c, command_id, result) ==
    IF result = ResultNoContent THEN o
    ELSE IF result = ResultRaises
    THEN send_message(o, cl, c, ErrorOut("error while processing the extract result", command_id))
    ELSE send_message(o, cl, c, ExtractComplete(command_id))

\* ExtractHandler.handle_response: a response that does not report success
\* and one without result are logged; any other is handed, with its id, to
\* _process_extract_result.
ExtractHandler_handle_response(o, cl, c, m) ==
    IF ~m.success THEN o
    ELSE IF m.result = Absent THEN o
    ELSE process_extract_result(o, cl, c, m.id, m.result)

\* MCPProtocol.handle_response: an error for a response without id or
\* without command.  Otherwise the handler of the command, if there is one,
\* is given the response; the responses read name 'extract' or a command
\* without handler.
MCPProtocol_handle_response(c, m, cl) ==
    IF m.id = Absent \/ m.command = Absent
    THEN /\ out' = send_message(out, cl, c, ErrorOut("response lacks required fields", Absent))
         /\ clients' = cl
         /\ UNCHANGED <<conn, task_queue>>
    ELSE /\ out' = IF m.command = ExtractCommand
                   THEN ExtractHandler_handle_response(out, cl, c, m)
                   ELSE out
         /\ clients' = cl
         /\ UNCHANGED <<conn, task_queue>>

\* MCPProtocol.handle_message: dispatch on the type of the message.
handle_message(c, m, cl) ==
    IF m.type = Absent
    THEN /\ out' = send_message(out, cl, c, ErrorOut("missing type", Absent))
         /\ clients' = cl
         /\ UNCHANGED <<conn, task_queue>>
    ELSE IF m.type = "command"
    THEN handle_command(c, m, cl)
    ELSE IF m.type = "response"
    THEN MCPProtocol_handle_response(c, m, cl)
    ELSE IF m.type = "ping"
    THEN /\ out' = send_message(out, cl, c, Pong)
         /\ clients' = cl
         /\ UNCHANGED <<conn, task_queue>>
    ELSE /\ out' = send_message(out, cl, c, ErrorOut("unknown message type", Absent))
         /\ clients' = cl
         /\ UNCHANGED <<conn, task_queue>>

\* handle_messages: clients[client_id]['last_activity'] = loop.time()
Touch(cl, client_id, now) ==
    IF client_id \in DOMAIN cl THEN [cl EXCEPT ![client_id].last_activity = now] ELSE cl

\* handle_messages: one turn of the loop, the connection delivered m.  The
\* number of messages read stands for the time of the event loop.
HandleMessage(c, m) ==
    /\ Handler
    /\ conn[c].state = "active"
    /\ nMsgs < MaxMsgs
    /\ nMsgs' = nMsgs + 1
    /\ handled' = [conn |-> c, msg |-> m]
    /\ LET cl == Touch(clients, ClientUuid(c), nMsgs + 1)
       IN IF ~m.json
          THEN /\ out' = WsSend(out, c, ErrorOut("invalid json", Absent))
               /\ clients' = cl
               /\ UNCHANGED <<conn, task_queue>>
          ELSE handle_message(c, m, cl)

\* handle_command, its last statement: the command_received message.
Ack(c) ==
    /\ Handler
    /\ conn[c].state = "acking"
    /\ out' = send_message(out, clients, c,
                           CommandReceived(conn[c].job.id, conn[c].job.command))
    /\ conn' = [conn EXCEPT ![c].state = "active", ![c].job = NoJob]
    /\ handled' = NoHandled
    /\ UNCHANGED <<clients, task_queue, nMsgs>>

\* The connection is closed and all it sent was read: the loop of
\* handle_messages ends and handle_connection returns.
Closed(c) ==
    /\ Handler
    /\ conn[c].state = "active"
    /\ ~conn[c].peer
    /\ ConnectionEnds(c)
    /\ handled' = NoHandled
    /\ UNCHANGED <<task_queue, out, nMsgs>>

\* ------------------------------------------------------ the task queue
\* The connection whose handler drew client_id.
ConnOf(client_id) == CHOOSE c \in Conns : ClientUuid(c) = client_id

\* Mutant of ExtractHandler.handle_command: the extract command gets an id
\* of its own.
ExtractHandler_handle_command_OwnId(o, cl, c, task) ==
    IF Url(task.params) = Absent
    THEN send_message(o, cl, c, ErrorOut(ErrNoUrl, task.id))
    ELSE send_message(o, cl, c, SubRequest(CmdUuid(0), ExtractCommand))

\* ExtractHandler.handle_command: an error with the id of the task when its
\* params have no url, otherwise the extract command, with the id of the
\* task, is sent to the client.
ExtractHandler_handle_command(o, cl, c, task) ==
    IF Url(task.params) = Absent
    THEN send_message(o, cl, c, ErrorOut(ErrNoUrl, task.id))
    ELSE send_message(o, cl, c, SubRequest(task.id, ExtractCommand))

\* CaptureHandler.handle_command: the handler builds a sub-request for the
\* task and sends it to the client.
CaptureHandler_handle_command(o, cl, c, task) ==
    send_message(o, cl, c, SubRequest(task.id, task.command))

\* TaskQueue.process_tasks, one turn of its loop: the oldest task not yet
\* taken is handed to the handler of its command.
ProcessTask ==
    /\ Server
    /\ mcp_server.queue = "processing"
    /\ nProcessed < Len(task_queue)
    /\ LET task == task_queue[nProcessed + 1]
           c == ConnOf(task.client_id)
       IN out' = IF task.command = ExtractCommand
                 THEN ExtractHandler_handle_command(out, clients, c, task)
                 ELSE CaptureHandler_handle_command(out, clients, c, task)
    /\ nProcessed' = nProcessed + 1
    /\ handled' = NoHandled
    /\ UNCHANGED <<conn, clients, task_queue, nMsgs, mcp_server>>

\* ------------------------------------------------------------------- Next
\* --------------------------------------------------- start and stop
\* TaskQueue.stop: the processing loop is halted.
TaskQueue_stop(q) == "stopped"

\* Mutant of start_takes_effect: the test of `running` is missing.
start_takes_effect_NoTest(s) == s.server \in {"none", "serving"}

\* MCPServer.start goes past its first test (`if self.running: return`)
\* when the server is not running; no stop is in progress.
start_takes_effect(s) == ~s.running /\ s.server = "none"

\* MCPServer.start when the server is not running: running = True, the
\* task of task_queue.process_tasks is created, websocket_server.start()
\* begins to serve.  main awaits it before anything else.
Start ==
    /\ Server
    /\ start_takes_effect(mcp_server)
    /\ mcp_server.starts < MaxStarts
    /\ mcp_server' = [running |-> TRUE, server |-> "serving", queue |-> "processing",
                      starts |-> mcp_server.starts + 1, call |-> "start"]
    /\ handled' = NoHandled
    /\ UNCHANGED <<conn, clients, task_queue, out, nMsgs, nProcessed>>

\* MCPServer.stop when the server is running, up to `await
\* self.server.wait_closed()`: running = False, and server.close() stops
\* accepting and closes every open connection; their handlers see
\* ConnectionClosed at their next read.
StopBegin ==
    /\ Server
    /\ mcp_server.running
    /\ mcp_server' = [mcp_server EXCEPT !.running = FALSE, !.server = "closing",
                                        !.call = "stop"]
    /\ conn' = [c \in Conns |-> [conn[c] EXCEPT !.peer = FALSE]]
    /\ handled' = NoHandled
    /\ UNCHANGED <<clients, task_queue, out, nMsgs, nProcessed>>

\* MCPServer.stop, the rest: wait_closed returns once every connection
\* handler has returned, then `await self.task_queue.stop()`.
StopEnd ==
    /\ Server
    /\ mcp_server.server = "closing"
    /\ \A c \in Conns : conn[c].state \in {"unused", "closed"}
    /\ mcp_server' = [mcp_server EXCEPT !.server = "none",
                                        !.queue = TaskQueue_stop(mcp_server.queue)]
    /\ handled' = NoHandled
    /\ UNCHANGED <<conn, clients, task_queue, out, nMsgs, nProcessed>>

\* MCPServer.start when the server is running: a warning, and it returns.
StartReturns ==
    /\ Server
    /\ mcp_server.running
    /\ mcp_server' = [mcp_server EXCEPT !.call = "start returned"]
    /\ handled' = NoHandled
    /\ UNCHANGED <<conn, clients, task_queue, out, nMsgs, nProcessed>>

\* MCPServer.stop when the server is not running: a warning, and it
\* returns.
StopReturns ==
    /\ Server
    /\ ~mcp_server.running
    /\ mcp_server' = [mcp_server EXCEPT !.call = "stop returned"]
    /\ handled' = NoHandled
    /\ UNCHANGED <<conn, clients, task_queue, out, nMsgs, nProcessed>>

\* ------------------------------------------------------- the add tool
\* mcp-server main.add
add_mcp(a, b) == a + b

\* python-backend main.add
add_backend(a, b) == a + b + 1

\* The add tool of the FastAPI app that runs.
add(v, a, b) == IF v = "backend" THEN add_backend(a, b) ELSE add_mcp(a, b)

\* The integers a client passes to add.
AddInputs == (0 - MaxAdd)..MaxAdd

\* An MCP client invokes add(a, b); the tool touches nothing of the broker.
AddCall ==
    /\ variant # "server"
    /\ ~add_tool.called
    /\ add_tool' = [add_tool EXCEPT !.called = TRUE,
                                    !.result = add(variant, add_tool.a, add_tool.b)]
    /\ UNCHANGED <<variant, bvars, svars>>

\* A client is about to invoke add with some arguments.
AddInit ==
    /\ Constructs
    /\ variant # "server"
    /\ add_tool \in {[NoAdd EXCEPT !.a = a, !.b = b] : a, b \in AddInputs}

AddSpec == AddInit /\ [][AddCall]_vars

\* The steps of the FastAPI brokers when peers open the websockets S.
BrokerSteps(S) ==
    \/ \E w \in S, c \in ConnIdsOffered(variant) : ConnectRejected(w, c)
    \/ \E w \in S, c \in ConnIdsOffered(variant) : Connect(w, c)
    \/ \E w \in Sockets : ClientClose(w)
    \/ \E w \in Sockets : HandlerDisconnect(w)
    \/ \E w \in Sockets : ReceiveJsonRaises(w)
    \/ \E w \in Sockets : MalformedCommand(w)
    \/ \E w \in Sockets, m \in MsgIdInputs : Command(w, m)
    \/ ToolCall
    \/ \E k \in Calls : SendJson(k)
    \/ \E k \in Calls : SendJsonLost(k)
    \/ \E k \in Calls : SendJsonRaises(k)
    \/ \E w \in Sockets : \E d \in BrowserData(w, nResolved + 1) : BrowserMessage(w, d)
    \/ \E k \in Calls : Resume(k)
    \/ \E k \in Calls : Timeout(k)
    \/ \E k \in Calls : CancelCall(k)

\* The steps of the FastAPI brokers.
BrokerNext == BrokerSteps(Sockets)

\* The steps of MCPServer when authenticated clients send the messages M:
\* its connection handlers, start and stop.
ServerSteps(M) ==
    \/ \E c \in Conns : Open(c)
    \/ \E c \in Conns : PeerClose(c)
    \/ \E c \in Conns, m \in FirstMessages : Auth(c, m)
    \/ \E c \in Conns, m \in FirstMessages : AuthSendRaises(c, m)
    \/ \E c \in Conns : AuthTimeout(c)
    \/ \E c \in Conns : AuthClosed(c)
    \/ \E c \in Conns, m \in M : HandleMessage(c, m)
    \/ \E c \in Conns : Ack(c)
    \/ \E c \in Conns : Closed(c)
    \/ Start
    \/ StopBegin
    \/ StopEnd

\* The steps of MCPServer up to the queue: the tasks stay enqueued.
ServerNext == ServerSteps(LaterMessages)

Next == BrokerNext \/ ServerNext

Spec == Init /\ [][Next]_vars

\* The event loop runs every task that is ready, and the timer of a
\* wait_for fires: a call that can take its next step takes it.
CallStep(k) == SendJson(k) \/ SendJsonLost(k) \/ SendJsonRaises(k) \/ Resume(k) \/ Timeout(k)


\* One of the FastAPI brokers runs.
BrokerInit == Init /\ variant # "server"

\* Termination is checked with this many connections per endpoint.
LiveBrowsers == 1
LiveCommands == 1
LiveSockets == {w \in Sockets : /\ w \in Browsers => w <= LiveBrowsers
                                /\ w \in Commands => w - MaxBrowsers <= LiveCommands}

\* The FastAPI brokers under that scheduling.
LiveSpec ==
    BrokerInit /\ [][BrokerSteps(LiveSockets)]_vars /\ \A k \in Calls : WF_vars(CallStep(k))

\* MCPServer runs.
ServerInit == Init /\ variant = "server"

\* The steps of MCPServer with the loop of the task queue, when its clients
\* take part in extract exchanges.
ExtractSpec == ServerInit /\ [][ServerSteps(ExtractMessages) \/ ProcessTask]_vars

\* Calls of MCPServer.start that take effect while start and stop are
\* followed.
LifeStarts == 2

\* MCPServer.start called again after a stop has completed.
StartAgain ==
    /\ Server
    /\ start_takes_effect(mcp_server)
    /\ mcp_server.starts >= 1
    /\ mcp_server.starts < LifeStarts
    /\ mcp_server' = [running |-> TRUE, server |-> "serving", queue |-> "processing",
                      starts |-> mcp_server.starts + 1, call |-> "start"]
    /\ handled' = NoHandled
    /\ UNCHANGED <<conn, clients, task_queue, out, nMsgs, nProcessed>>

\* The steps of MCPServer with the loop of the task queue and with the
\* calls of start and stop that return at once, while clients send pings
\* and capture commands.
LifecycleSpec ==
    /\ ServerInit
    /\ [][\/ ServerSteps({JsonMsg("ping"), CommandIn("capture", "c1", ParamsWithUrl)})
          \/ ProcessTask
          \/ StartAgain
          \/ StartReturns
          \/ StopReturns]_vars

\* ================================================================ claims
\* The task lists of the clients table.
TaskLists(cl) == [id \in DOMAIN cl |-> cl[id].tasks]

\* The websockets of the clients table.
Websockets(cl) == [id \in DOMAIN cl |-> cl[id].websocket]

InProgress(k) == call[k].pc \in {"sending", "waiting"}

Exits(k) == InProgress(k) /\ call'[k].pc = "done"

\* The step read a message from a browser and handed it to handle_response.
ReplyStep == lastReply' \in {"unknown", "already_done", "resolved"}

\* The wait of call k ended by the timeout of wait_for.
TimedOut(k) ==
    /\ call[k].pc = "done"
    /\ future[k].state = "cancelled"
    /\ call[k].outcome.kind # "CancelledError"

\* The future of call k is stored in pending_responses.
Registered(k) == \E m \in DOMAIN pending_responses : pending_responses[m] = k

\* C1: a future's result is set at most once: a reply for an exchange whose
\* future is already done changes nothing (the handler that read it goes on
\* reading), and the caller returns the data of the first reply.
C1_SingleResolution ==
    [][ /\ \A k \in Calls :
             /\ future[k].state = "result" =>
                   /\ future'[k].state = "result"
                   /\ future'[k].result = future[k].result
             /\ (Exits(k) /\ call'[k].outcome.kind = "return") =>
                   /\ future[k].state = "result"
                   /\ call'[k].outcome.data = future[k].result
        /\ lastReply' = "already_done" =>
              UNCHANGED <<future, pending_responses, call, sock, active_connections, sent>>
      ]_vars

\* C1 witness: a second reply for an exchange was read while its future
\* already held the first reply and its caller had not yet been resumed.
C1_Witness ==
    /\ lastReply = "already_done"
    /\ \E k \in Calls : /\ call[k].pc = "waiting"
                        /\ future[k].state = "result"
                        /\ Registered(k)

\* C2: every key of pending_responses belongs to a send_message call that is
\* in progress (so the table is empty when none is), and a call that leaves
\* send_message, by whatever path, leaves no entry under its message id.
C2_CleanupOnEveryExit ==
    /\ [](\A m \in DOMAIN pending_responses :
             \E k \in Calls : InProgress(k) /\ call[k].mid = m)
    /\ []((\A k \in Calls : ~InProgress(k)) => pending_responses = EmptyMap)
    /\ [][\A k \in Calls : Exits(k) => call[k].mid \notin DOMAIN pending_responses']_vars

\* C2 witness: one call returned a reply, another was cancelled, and the
\* table is empty again.
C2_Witness ==
    /\ pending_responses = EmptyMap
    /\ \E k \in Calls : call[k].pc = "done" /\ call[k].outcome.kind = "return"
    /\ \E k \in Calls : call[k].pc = "done" /\ call[k].outcome.kind = "CancelledError"

\* C3 (as claimed): what a call returns is a reply carrying the id the call
\* registered under; a reply that answers the request of one call is
\* returned to that call; no reply is returned to two calls.
C3_ReplyToItsCaller ==
    /\ \A k \in Calls :
          (call[k].pc = "done" /\ call[k].outcome.kind = "return") =>
             /\ call[k].outcome.data.message_id = call[k].mid
             /\ call[k].outcome.data.answers \in {0, k}
    /\ \A j, k \in Calls :
          (/\ j # k
           /\ call[j].pc = "done" /\ call[j].outcome.kind = "return"
           /\ call[k].pc = "done" /\ call[k].outcome.kind = "return")
          => call[j].outcome.data.seq # call[k].outcome.data.seq

\* C4 (as claimed): the step in which a connection is disconnected ends
\* every call waiting on an exchange sent to it with a ConnectionError.
C4_DisconnectUnblocks ==
    [][\A w \in Sockets :
          (sock[w].state # "ended" /\ sock'[w].state = "ended") =>
             \A k \in Calls :
                (/\ call[k].pc = "waiting"
                 /\ call[k].target = w
                 /\ \E i \in DOMAIN sent[w] : sent[w][i] = CommandMsg(call[k].mid, k)) =>
                   /\ call'[k].pc = "done"
                   /\ call'[k].outcome.kind = "ConnectionError"
      ]_vars

\* C5 (as claimed): while a caller is suspended in send_message with its
\* future pending, pending_responses maps its message id to its own future.
C5_OwnEntryWhileBlocked ==
    \A k \in Calls :
       (InProgress(k) /\ ~FutureDone(future[k])) =>
          /\ call[k].mid \in DOMAIN pending_responses
          /\ pending_responses[call[k].mid] = k

C7_DiscardedReply ==
    [][lastReply' \in {"no_id", "unknown", "already_done"} =>
          UNCHANGED <<pending_responses, future, call, sock, active_connections, sent>>
      ]_vars

\* C7 witness: a reply with an unknown id was discarded after a caller had
\* returned, while another exchange was pending.
C7_Witness ==
    /\ lastReply = "unknown"
    /\ \E k \in Calls : call[k].pc = "done" /\ call[k].outcome.kind = "return"
    /\ \E k \in Calls : InProgress(k) /\ Registered(k) /\ future[k].state = "pending"

\* No registered connection is a browser (executor) connection.
NoExecutorRegistered == \A i \in DOMAIN active_connections : active_connections[i].ws \notin Browsers

\* C8 (as claimed): a command submitted on a /ws_command connection while no
\* executor connection is registered fails at once with ConnectionError and
\* registers no exchange.
C8_NoExecutorFailsAtOnce ==
    [][(/\ nCalls' = nCalls + 1
        /\ call'[nCalls'].owner \in Commands
        /\ NoExecutorRegistered) =>
          /\ call'[nCalls'].pc = "done"
          /\ call'[nCalls'].outcome.kind = "ConnectionError"
          /\ pending_responses' = pending_responses
      ]_vars

\* C9: every send_message call that is in progress eventually leaves
\* send_message.
C9_EveryCallTerminates ==
    \A k \in Calls : InProgress(k) ~> (call[k].pc = "done")

\* C9 witness: a call whose target connection had disconnected, and which
\* no reply resolved, has left send_message by its timeout.
C9_Witness ==
    \E k \in Calls :
       /\ TimedOut(k)
       /\ call[k].outcome = ConnectionError(ErrTimeout)
       /\ sock[call[k].target].state = "ended"

FailedAtOnce(k) == call[k].pc = "done" /\ future[k].state = "none"

TargetOf(owner) == IF owner = Tool THEN ToolTarget ELSE CommandTarget(owner)

\* The step started send_message call k.
Starts(k) == nCalls' = k /\ nCalls = k - 1

\* The command messages transmitted to websocket w.
CommandsSentTo(w) == {i \in DOMAIN sent[w] : sent[w][i].type = "command"}

\* C11: a send_message call whose target_conn_id is not a key of
\* active_connections fails with ConnectionError, registers nothing and
\* transmits no command to any connection (its caller, when a /ws_command
\* handler, gets the error object); in mcp a command received on command
\* connection c is transmitted only to a connection that registered as
\* 'ws_browser:' + c.
C11_UnknownTargetFails ==
    /\ [][\A k \in Calls :
            (/\ Starts(k)
             /\ TargetOf(call'[k].owner) # Absent
             /\ TargetOf(call'[k].owner) \notin DictKeys(active_connections)) =>
               /\ call'[k].pc = "done"
               /\ call'[k].outcome.kind = "ConnectionError"
               /\ pending_responses' = pending_responses
               /\ future' = future
               /\ \A w \in Sockets :
                     \/ sent'[w] = sent[w]
                     \/ /\ w = call'[k].owner
                        /\ sent'[w] = Append(sent[w], ErrorMsg(call'[k].outcome.error))
         ]_vars
    /\ [](variant = "mcp" =>
            \A w \in Sockets : \A i \in CommandsSentTo(w) :
               call[sent[w][i].call].owner \in Commands =>
                  /\ sock[w].kind = "browser"
                  /\ sock[w].id = get_browser_conn_id(sock[call[sent[w][i].call].owner].id))

\* C11 witness: in mcp one command was transmitted to the browser paired
\* with its connection, and another call, made while connections were
\* registered but not its target, failed with the not-found error.
C11_Witness ==
    /\ variant = "mcp"
    /\ \E w \in Browsers : CommandsSentTo(w) # {}
    /\ \E k \in Calls : /\ call[k].pc = "done"
                        /\ call[k].outcome = ConnectionError(ErrNotFound)
                        /\ future[k].state = "none"

\* C12: a send_message call that registers an exchange registers it under
\* the message_id of its payload when that is not empty, and otherwise under
\* a generated id that is not a key of pending_responses at that moment; the
\* message_id of the command it transmits is the id it registered.
C12_ExchangeIdChoice ==
    /\ [][\A k \in Calls :
            (Starts(k) /\ call'[k].pc = "sending") =>
               /\ call'[k].given # Absent => call'[k].mid = call'[k].given
               /\ call'[k].given = Absent =>
                     /\ call'[k].mid # Absent
                     /\ call'[k].mid \notin DOMAIN pending_responses
               /\ call'[k].mid \in DOMAIN pending_responses'
               /\ pending_responses'[call'[k].mid] = k
         ]_vars
    /\ [](\A w \in Sockets : \A i \in CommandsSentTo(w) :
             sent[w][i].message_id = call[sent[w][i].call].mid)

\* C12 witness: a command carrying its own message_id and a command
\* carrying none were both registered and transmitted, the second while the
\* first was pending.
C12_Witness ==
    \E j, k \in Calls :
       /\ call[j].given # Absent /\ call[j].mid = call[j].given
       /\ call[k].given = Absent /\ call[k].mid = MsgUuid(k)
       /\ call[j].pc = "waiting" /\ call[k].pc = "waiting"
       /\ Registered(j) /\ Registered(k)
       /\ \E w \in Sockets : \E i \in CommandsSentTo(w) : sent[w][i] = CommandMsg(call[k].mid, k)
       /\ \E w \in Sockets : \E i \in CommandsSentTo(w) : sent[w][i] = CommandMsg(call[j].mid, j)

\* The step registered websocket w (ws_manager.connect returned).
Registers(w) == sock[w].state = "unused" /\ sock'[w].state = "receiving"

\* The step ended the handler of websocket w, which was running.
Ends(w) == sock[w].state \in {"receiving", "inCall"} /\ sock'[w].state = "ended"

\* C13 (as claimed): connect gives the connection an id that no registered
\* connection holds; it adds one entry to active_connections and leaves
\* every entry that was there as it was.
C13_ConnectAddsOneEntry ==
    [][\A w \in Sockets :
          Registers(w) =>
             /\ sock'[w].id \notin DictKeys(active_connections)
             /\ Len(active_connections') = Len(active_connections) + 1
             /\ \A i \in DOMAIN active_connections :
                   active_connections'[i] = active_connections[i]
      ]_vars

\* C14 (as claimed): the step that ends the handler of one connection
\* removes no entry of another connection from active_connections and
\* changes no call, future or pending entry of an exchange that the
\* connection neither received nor issued.
C14_DisconnectIsolated ==
    [][\A w \in Sockets :
          Ends(w) =>
             /\ \A i \in DOMAIN active_connections :
                   active_connections[i].ws # w =>
                      \E j \in DOMAIN active_connections' :
                         active_connections'[j] = active_connections[i]
             /\ \A k \in Calls :
                   (call[k].target # w /\ call[k].owner # w) =>
                      /\ call'[k] = call[k]
                      /\ future'[k] = future[k]
                      /\ Registered(k) =>
                            /\ call[k].mid \in DOMAIN pending_responses'
                            /\ pending_responses'[call[k].mid] = pending_responses[call[k].mid]
      ]_vars

\* The conn_ids a connection can be registered under.
ConnIds ==
    {connect_id, get_browser_conn_id(connect_id)} \cup {ConnUuid(w) : w \in Sockets}

\* The step ended handle_connection of server connection c.
Closes(c) == conn[c].state # "closed" /\ conn'[c].state = "closed"

\* C15: disconnect with an id that is not (or no longer) a key of
\* active_connections, and unregister_client with a client id that is not
\* in clients, change nothing: a handler that ends after another handler
\* disconnected the same id leaves active_connections and
\* pending_responses as they were, a connection that ends without having
\* been registered leaves clients as it was, and applying either function
\* a second time gives what the first application gave.
C15_DisconnectIdempotent ==
    /\ [][\A w \in Sockets :
            (Ends(w) /\ sock[w].id \notin DictKeys(active_connections)) =>
               /\ active_connections' = active_connections
               /\ sock[w].state = "receiving" => pending_responses' = pending_responses
         ]_vars
    /\ [][\A c \in Conns :
            (Closes(c) /\ ClientUuid(c) \notin DOMAIN clients) => clients' = clients
         ]_vars
    /\ [](\A id \in ConnIds :
             /\ disconnect(disconnect(active_connections, id), id)
                   = disconnect(active_connections, id)
             /\ id \notin DictKeys(active_connections) =>
                   disconnect(active_connections, id) = active_connections)
    /\ [](\A c \in Conns :
             /\ unregister_client(unregister_client(clients, ClientUuid(c)), ClientUuid(c))
                   = unregister_client(clients, ClientUuid(c))
             /\ ClientUuid(c) \notin DOMAIN clients =>
                   unregister_client(clients, ClientUuid(c)) = clients)

\* C15 witness: two handlers that held the same conn_id have both ended,
\* the second one disconnecting an id that was no longer registered, while
\* another connection stayed registered.
C15_Witness ==
    /\ active_connections # <<>>
    /\ \E v, w \in Sockets :
          /\ v # w
          /\ sock[v].state = "ended" /\ sock[w].state = "ended"
          /\ sock[v].id = sock[w].id

\* The handler of websocket w is running (its disconnect was not processed).
Running(w) == sock[w].state \in {"receiving", "inCall"}

\* C16: every entry of active_connections refers to a websocket whose
\* handler is running, and the step that ends a handler leaves no entry
\* referring to its websocket; the connection send_message selects, with or
\* without a named target, is one whose handler is running.
C16_NoStaleEntry ==
    /\ [](\A i \in DOMAIN active_connections : Running(active_connections[i].ws))
    /\ [][\A w \in Sockets :
            Ends(w) => \A i \in DOMAIN active_connections' : active_connections'[i].ws # w
         ]_vars
    /\ [][\A k \in Calls :
            (Starts(k) /\ call'[k].pc = "sending") => Running(call'[k].target)
         ]_vars

\* C16 witness: in the backend a send_message without a named target
\* selected a connection while the connection registered before it had
\* already disconnected.
C16_Witness ==
    /\ variant = "backend"
    /\ \E k \in Calls :
          /\ InProgress(k)
          /\ call[k].owner \in Commands
          /\ Running(call[k].target)
          /\ \E v \in Sockets : v < call[k].target /\ sock[v].state = "ended"

\* Server connection c is registered as a client.
IsClient(c) == ClientUuid(c) \in DOMAIN clients

\* m is a well-formed auth message with the valid API key.
ValidAuth(m) == m.json /\ m.type = "auth" /\ validate_api_key(m.apiKey)

\* The step read a message on server connection c.
Reads(c) == handled'.conn = c

\* The error messages the server sent on connection c.
ErrorsOn(o, c) == {i \in DOMAIN o[c] : o[c][i].type = "error"}

\* C17: a server connection becomes a client only in the step that reads
\* its first message, and only if that message is a well-formed auth
\* message with the valid API key; a first message of another kind, or none
\* within the timeout, ends the connection unregistered, for good; only
\* messages of registered clients are dispatched, and nothing read on an
\* unauthenticated connection reaches the task queue.
C17_AuthGatesDispatch ==
    /\ [][\A c \in Conns :
            /\ (~IsClient(c) /\ IsClient(c)') =>
                  /\ conn[c].state = "auth"
                  /\ Reads(c)
                  /\ ValidAuth(handled'.msg)
            /\ (conn[c].state = "auth" /\ Reads(c) /\ ~ValidAuth(handled'.msg)) =>
                  /\ conn'[c].state = "closed"
                  /\ ~IsClient(c)'
            /\ (conn[c].state = "auth" /\ conn'[c].state # "auth") =>
                  /\ task_queue' = task_queue
                  /\ nMsgs' = nMsgs
                  /\ conn'[c].state \in {"active", "closed"}
            /\ (conn[c].state # "auth" /\ Reads(c)) => IsClient(c)
            /\ conn[c].state = "closed" => conn'[c].state = "closed"
         ]_vars
    /\ [](\A c \in Conns :
             /\ IsClient(c) <=> conn[c].state \in {"active", "acking"}
             /\ \A i \in DOMAIN task_queue :
                   task_queue[i].client_id = ClientUuid(c) =>
                      conn[c].state \in {"active", "acking", "closed"})

\* C17 witness: one connection sent an auth message with a wrong key and
\* was closed unregistered; another authenticated and had a command
\* dispatched.
C17_Witness ==
    \E b, c \in Conns :
       /\ conn[b].state = "closed"
       /\ \E i \in DOMAIN out[b] : out[b][i].text = ErrAuthKey
       /\ IsClient(c)
       /\ \E i \in DOMAIN task_queue : task_queue[i].client_id = ClientUuid(c)

\* The auth_response messages the server sent on connection c.
AuthResponsesOn(o, c) == {i \in DOMAIN o[c] : o[c][i].type = "auth_response"}

\* The reason authenticate_client gives for refusing first message m.
AuthFailureReason(m) ==
    IF ~m.json THEN ErrAuthJson
    ELSE IF m.type # "auth" THEN ErrAuthType
    ELSE ErrAuthKey

\* C18: a handshake that fails sends the peer one notification naming the
\* reason and ends the connection unregistered: on the server one 'error'
\* message (the last thing sent, delivered when the peer is there, its text
\* telling a bad message type, a bad key, bad JSON and a timeout apart), in
\* mcp the close with code 4001 and reason 'Invalid connect_id', which
\* leaves the registry and every connection as they were.  A handshake
\* that succeeds on the server sends one auth_response carrying the client
\* id the connection is registered under and no error.
C18_HandshakeNotification ==
    /\ [][\A c \in Conns :
            /\ (conn[c].state = "auth" /\ conn'[c].state = "closed") =>
                  /\ ErrorsOn(out, c) = {}
                  /\ ErrorsOn(out', c) = {Len(out'[c])}
                  /\ out'[c][Len(out'[c])].delivered = conn[c].peer
                  /\ out'[c][Len(out'[c])].text \in
                        {ErrAuthType, ErrAuthKey, ErrAuthJson, ErrAuthTimeout, ErrAuthException}
                  /\ (Reads(c) /\ ~ValidAuth(handled'.msg)) =>
                        out'[c][Len(out'[c])].text = AuthFailureReason(handled'.msg)
                  /\ (~Reads(c) /\ conn[c].peer) =>
                        out'[c][Len(out'[c])].text = ErrAuthTimeout
                  /\ ~IsClient(c)'
                  /\ clients' = clients
            /\ (conn[c].state = "auth" /\ conn'[c].state = "active") =>
                  /\ out[c] = <<>>
                  /\ Len(out'[c]) = 1
                  /\ out'[c][1].type = "auth_response"
                  /\ out'[c][1].clientId = ClientUuid(c)
                  /\ out'[c][1].delivered = conn[c].peer
                  /\ IsClient(c)'
                  /\ clients'[ClientUuid(c)].websocket = c
         ]_vars
    /\ [](\A c \in Conns :
             /\ conn[c].state = "auth" => out[c] = <<>>
             /\ IsClient(c) =>
                   /\ AuthResponsesOn(out, c) = {1}
                   /\ out[c][1].clientId = ClientUuid(c))
    /\ [][lastReply' = CloseInvalidConnectId =>
            /\ variant = "mcp"
            /\ UNCHANGED <<active_connections, sock, sent, pending_responses>>
         ]_vars

\* C18 witness: on the server one handshake failed for a wrong key and its
\* peer received the one error message; another succeeded and its peer
\* received the one auth_response with its client id.
C18_Witness ==
    \E b, c \in Conns :
       /\ conn[b].state = "closed"
       /\ out[b] = <<[ErrorOut(ErrAuthKey, Absent) EXCEPT !.delivered = TRUE]>>
       /\ conn[c].state = "active"
       /\ out[c] = <<[AuthResponse(ClientUuid(c)) EXCEPT !.delivered = TRUE]>>

\* The step read message m on the registered server connection c.
Dispatches(c) == conn[c].state = "active" /\ Reads(c) /\ handled'.msg.json

\* m is a command message naming a command that has a handler.
HandledCommand(m) == m.type = "command" /\ m.command \in Handlers

\* The step sent msg on connection c and nothing on any other.
SendsOnly(c, msg) ==
    /\ out'[c] = Append(out[c], [msg EXCEPT !.delivered = conn[c].peer])
    /\ \A b \in Conns \ {c} : out'[b] = out[b]

\* C19: the step that reads a command with a registered handler from a
\* registered client appends one task to the queue, carrying the id of the
\* message (an id no queued task has, when the message has none), the
\* client id, the command and the params, notes the id in the client's
\* task list and sends nothing yet; the next step of that handler sends one
\* command_received with the same id and command on the same connection
\* and leaves the queue alone.
C19_EnqueueThenAck ==
    /\ [][\A c \in Conns :
            /\ (Dispatches(c) /\ HandledCommand(handled'.msg)) =>
                  LET m == handled'.msg
                      id == conn'[c].job.id
                  IN /\ conn'[c].state = "acking"
                     /\ id # Absent
                     /\ m.id # Absent => id = m.id
                     /\ m.id = Absent =>
                           \A i \in DOMAIN task_queue : task_queue[i].id # id
                     /\ conn'[c].job.command = m.command
                     /\ task_queue' = Append(task_queue,
                            Task(id, ClientUuid(c), m.command,
                                 IF m.params # Absent THEN m.params ELSE DefaultParams))
                     /\ TaskLists(clients') =
                           [TaskLists(clients) EXCEPT ![ClientUuid(c)] = Append(@, id)]
                     /\ out' = out
            /\ (conn[c].state = "acking" /\ conn'[c].state # "acking") =>
                  /\ conn'[c].state = "active"
                  /\ SendsOnly(c, CommandReceived(conn[c].job.id, conn[c].job.command))
                  /\ task_queue' = task_queue
                  /\ clients' = clients
            /\ (conn[c].state # "acking" /\ conn'[c].state = "acking") =>
                  (Dispatches(c) /\ HandledCommand(handled'.msg))
         ]_vars
    /\ [](\A c \in Conns :
             conn[c].state = "acking" =>
                \E i \in DOMAIN task_queue :
                   /\ task_queue[i].id = conn[c].job.id
                   /\ task_queue[i].client_id = ClientUuid(c))

\* C19 witness: a client sent a command with an id and a command without,
\* both were enqueued and both acknowledgments reached it.
C19_Witness ==
    \E c \in Conns :
       /\ conn[c].state = "active"
       /\ Len(task_queue) = 2
       /\ task_queue[1].client_id = ClientUuid(c) /\ task_queue[2].client_id = ClientUuid(c)
       /\ \E i, j \in DOMAIN out[c] :
             /\ i < j
             /\ out[c][i].type = "command_received" /\ out[c][i].delivered
             /\ out[c][j].type = "command_received" /\ out[c][j].delivered
             /\ out[c][i].id = task_queue[1].id
             /\ out[c][j].id = task_queue[2].id
             /\ {out[c][i].id, out[c][j].id} \cap IdInputs # {}
             /\ {out[c][i].id, out[c][j].id} \ IdInputs # {}

\* m is a command message without a command name or naming a command that
\* has no handler.
UnhandledCommand(m) == m.type = "command" /\ m.command \notin Handlers

\* C20: the step that reads a command without name, or with a name that
\* has no handler, sends one error on the connection it came from and
\* nothing else: the error carries the id of the message (a generated one
\* when the message has none) and tells the two cases apart; the queue and
\* the task lists of the clients table are unchanged, no acknowledgment
\* is pending or sent, and the connection is back in its read loop.
C20_UnknownCommandError ==
    [][\A c \in Conns :
          (Dispatches(c) /\ UnhandledCommand(handled'.msg)) =>
             LET m == handled'.msg
                 e == out'[c][Len(out'[c])]
             IN /\ Len(out'[c]) = Len(out[c]) + 1
                /\ SendsOnly(c, e)
                /\ e.type = "error"
                /\ e.id # Absent
                /\ m.id # Absent => e.id = m.id
                /\ e.text = IF m.command = Absent THEN ErrNoCommand ELSE ErrUnknownCommand
                /\ task_queue' = task_queue
                /\ TaskLists(clients') = TaskLists(clients)
                /\ conn'[c] = conn[c]
                /\ conn'[c].state = "active"
      ]_vars

\* C20 witness: a client was sent the error for a command without handler,
\* with the id of the command, and the next command it sent was enqueued.
C20_Witness ==
    \E c \in Conns :
       /\ conn[c].state = "acking"
       /\ \E i \in DOMAIN out[c] :
             /\ out[c][i].type = "error"
             /\ out[c][i].text = ErrUnknownCommand
             /\ out[c][i].id \in IdInputs \ {Absent}
             /\ out[c][i].delivered
       /\ Len(task_queue) = 1
       /\ task_queue[1].client_id = ClientUuid(c)

\* ------------------------------------------------------------ C21..C30
\* C21 (as claimed): the step that reads a control message (a ping on a
\* registered server connection, a heartbeat without message_id on
\* /ws_browser) sends exactly one message, to the connection it came from,
\* and leaves the task queue, the task lists and pending_responses as they
\* were; on a server connection that message is the pong.
C21_ControlAnswered ==
    [][ /\ \A c \in Conns :
             (Dispatches(c) /\ handled'.msg.type = "ping") =>
                /\ SendsOnly(c, Pong)
                /\ task_queue' = task_queue
                /\ TaskLists(clients') = TaskLists(clients)
        /\ lastReply' = "no_id" =>
              /\ \E w \in Browsers :
                    /\ sock[w].state = "receiving"
                    /\ Len(sent'[w]) = Len(sent[w]) + 1
                    /\ \A v \in Sockets \ {w} : sent'[v] = sent[v]
              /\ pending_responses' = pending_responses
      ]_vars

\* m is a JSON message that is neither a reply, a recognized kind of
\* command nor a control message: it has no type, an unknown type, or is a
\* response without id or without command.
MalformedMessage(m) ==
    /\ m.json
    /\ \/ m.type = Absent
       \/ m.type \notin {"command", "response", "ping"}
       \/ m.type = "response" /\ (m.id = Absent \/ m.command = Absent)

\* C22 (as claimed): the step that reads such a message from a registered
\* client sends exactly one message, an error, on the connection it came
\* from, and the error carries the id of the message when it has one.
C22_MalformedAnswered ==
    [][\A c \in Conns :
          (Dispatches(c) /\ MalformedMessage(handled'.msg)) =>
             LET m == handled'.msg
                 e == out'[c][Len(out'[c])]
             IN /\ Len(out'[c]) = Len(out[c]) + 1
                /\ SendsOnly(c, e)
                /\ e.type = "error"
                /\ m.id # Absent => e.id = m.id
      ]_vars

\* C23 (as claimed): the step that reads a malformed message (text that is
\* not JSON, or JSON lacking required fields) leaves the connection that
\* sent it open, registered and in its read loop: a registered server
\* connection stays active and in the clients table, and a /ws_browser or
\* /ws_command handler stays in its loop with its entry in
\* active_connections.
C23_MalformedKeepsConnection ==
    [][ /\ \A c \in Conns :
             (/\ conn[c].state = "active"
              /\ Reads(c)
              /\ (~handled'.msg.json
                     \/ MalformedMessage(handled'.msg)
                     \/ UnhandledCommand(handled'.msg))) =>
                /\ conn'[c].state = "active"
                /\ conn'[c].peer = conn[c].peer
                /\ ClientUuid(c) \in DOMAIN clients'
        /\ lastReply' \in {"bad_json", "malformed"} =>
              /\ \A w \in Sockets : sock'[w] = sock[w]
              /\ active_connections' = active_connections
      ]_vars

\* The command of call k is on the channel of the connection it was sent to.
Transmitted(k) ==
    /\ call[k].target \in Sockets
    /\ \E i \in CommandsSentTo(call[k].target) : sent[call[k].target][i].call = k

\* C24 (as claimed): while the command of a /ws_command requester waits for
\* its reply, the connection the command was sent to is served by a loop
\* that hands replies to handle_response and never suspends in
\* send_message: it is a /ws_browser connection, hence not the requester's
\* own connection nor that of another requester.
C24_ReplyCanBeDispatched ==
    \A k \in Calls :
       (call[k].pc = "waiting" /\ call[k].owner \in Commands /\ Transmitted(k)) =>
          /\ call[k].target # call[k].owner
          /\ sock[call[k].target].kind = "browser"
          /\ sock[call[k].target].state # "inCall"

\* The server connection c is open: its handler has not returned.
Live(c) == conn[c].state \in {"auth", "active", "acking"}

\* MCPServer.stop has returned.
Stopped == ~mcp_server.running /\ mcp_server.server = "none" /\ mcp_server.starts > 0

\* The step is the one of stop that closes the live connections.
ClosesConnections ==
    /\ mcp_server'.server # mcp_server.server
    /\ \E c \in Conns : Live(c) /\ conn[c].peer /\ ~conn'[c].peer

\* The step halts the loop of the task queue.
HaltsQueue == mcp_server.queue # "stopped" /\ mcp_server'.queue = "stopped"

\* C25 (as claimed): stop first stops accepting, then stops the task queue,
\* and only then closes the live connections: the step of stop that closes
\* the live connections leaves the listener closed and finds the queue
\* loop halted; the step that halts the queue finds the listener closed;
\* and once stop has returned no connection is accepted, none is live and
\* the clients table is empty.
C25_StopOrder ==
    /\ [][ /\ ClosesConnections =>
                  /\ mcp_server'.server # "serving"
                  /\ mcp_server.queue = "stopped"
           /\ HaltsQueue => mcp_server.server # "serving"
         ]_vars
    /\ [](Stopped =>
             /\ \A c \in Conns : ~Live(c)
             /\ clients = EmptyMap)
    /\ [][Stopped => \A c \in Conns : (conn[c].state = "unused" => conn'[c].state = "unused")]_vars

\* C26 (as claimed): what add returns for integers a and b is a + b, in the
\* mcp-server and in the python-backend app alike (5 for a = 2, b = 3).
C26_AddReturnsSum ==
    add_tool.called =>
       /\ add_tool.result = add_tool.a + add_tool.b
       /\ (add_tool.a = 2 /\ add_tool.b = 3) => add_tool.result = 5

\* The step hands the command of call k to the channel of its target.
Transmits(k) == ~Transmitted(k) /\ Transmitted(k)'

\* The step is a turn of the /ws_browser loop of w that read `data`, a
\* message carrying the id of call k, while k waits with its command out.
ReplyArrivesFor(k, w, data) ==
    /\ call[k].pc = "waiting"
    /\ Transmitted(k)
    /\ ~FutureDone(future[k])
    /\ data.has_id
    /\ data.message_id = call[k].mid
    /\ BrowserMessage(w, data)

\* C27 (as claimed): when send_message hands the payload to the target's
\* channel its exchange is in pending_responses under its message id, and a
\* reply carrying that id which arrives after the transmission and before
\* the timeout finds the entry and resolves the waiting caller.
C27_RegisteredBeforeTransmit ==
    [][\A k \in Calls :
          /\ Transmits(k) =>
                /\ call[k].mid \in DOMAIN pending_responses
                /\ pending_responses[call[k].mid] = k
          /\ \A w \in Browsers : \A data \in BrowserData(w, nResolved + 1) :
                ReplyArrivesFor(k, w, data) =>
                   /\ future'[k] = [state |-> "result", result |-> data]
                   /\ lastReply' = "resolved"
      ]_vars

\* C28 (as claimed): the future of an exchange is resolved only in a turn
\* of the read loop of the connection its command was sent to; a message
\* with a pending message_id read on another connection resolves nothing.
C28_ResolvedByTargetOnly ==
    [][\A k \in Calls :
          (~FutureDone(future[k]) /\ future'[k].state = "result") =>
             future'[k].result.from = call[k].target
      ]_vars

\* The step is register_client for server connection c (authentication
\* succeeded) or unregister_client for it (handle_connection returned).
RegistryStep(c) ==
    \/ conn[c].state = "auth" /\ conn'[c].state = "active"
    \/ conn[c].state # "closed" /\ conn'[c].state = "closed"

\* C29 (as claimed): the key set of pending_responses changes only in a
\* step of send_message (its registration or its exit); active_connections
\* changes only in a step that runs connect or disconnect; the clients
\* table of the backend server changes, in its keys or in any entry, only
\* in a step that runs register_client or unregister_client.
C29_TableOwners ==
    [][ /\ DOMAIN pending_responses' # DOMAIN pending_responses =>
              \E k \in Calls : Starts(k) \/ Exits(k)
        /\ active_connections' # active_connections =>
              \E w \in Sockets : Registers(w) \/ Ends(w)
        /\ clients' # clients => \E c \in Conns : RegistryStep(c)
      ]_vars

\* send_message call k, made for a command of a /ws_command connection
\* whose peer is there, ends in this step: at once or after its wait.
CommandEnds(k) ==
    /\ call'[k].pc = "done"
    /\ call'[k].owner \in Commands
    /\ sock[call'[k].owner].peer
    /\ Starts(k) \/ Exits(k)

\* The step transmits msg to websocket w and nothing else to anyone; w is in
\* its read loop afterwards and active_connections is as before.
AnswersOn(w, msg) ==
    /\ sent' = [sent EXCEPT ![w] = Append(@, msg)]
    /\ sock'[w].state = "receiving"
    /\ sock'[w].peer
    /\ active_connections' = active_connections

\* C30 (as claimed): the command of a /ws_command connection whose
\* send_message call ends is answered on that connection with exactly one
\* message, the executor's reply when the call returned and an error object
\* otherwise (executor absent, timeout, failed transmission); a malformed
\* command is answered with one error object; either way the connection
\* stays registered and goes back to its read loop.
C30_CommandAnsweredOnce ==
    [][ /\ \A k \in Calls :
             CommandEnds(k) =>
                LET o == call'[k].outcome
                IN AnswersOn(call'[k].owner,
                             IF o.kind = "return" THEN ResponseMsg(o.data)
                                                  ELSE ErrorMsg(o.error))
        /\ lastReply' = "malformed" =>
              \E w \in Commands :
                 /\ sock[w].state = "receiving"
                 /\ AnswersOn(w, ErrorMsg(ErrInvalidCommand))
      ]_vars

\* ------------------------------------------------------------ C31..C35
\* m is a response that MCPProtocol.handle_response hands to
\* ExtractHandler.handle_response.
ExtractResponse(m) == m.type = "response" /\ m.id # Absent /\ m.command = ExtractCommand

\* The step sent on connection c one message that ends an extract exchange,
\* with the id command_id, and nothing on any other connection.
SendsTerminal(c, command_id) ==
    /\ Len(out'[c]) = Len(out[c]) + 1
    /\ LET e == out'[c][Len(out'[c])]
       IN /\ SendsOnly(c, e)
          /\ e.type \in {"extract_complete", "error"}
          /\ e.id = command_id

\* C31 (as claimed): the step in which ExtractHandler.handle_response
\* handles a response of a registered client sends that client exactly one
\* terminal message carrying the id of the response, extract_complete or an
\* error, whether the response reports success or not, has a result or
\* not, or makes the processing of the result raise.
C31_ResponseAnswered ==
    [][\A c \in Conns :
          (Dispatches(c) /\ ExtractResponse(handled'.msg)) =>
             SendsTerminal(c, handled'.msg.id)
      ]_vars

\* The step is a turn of the task queue's loop.
Processes == nProcessed' = nProcessed + 1

\* m is an extract command.
ExtractCommandIn(m) == m.type = "command" /\ m.command = ExtractCommand

\* C32: the id of an extract command of a registered client is kept from
\* end to end.  The step that reads the command enqueues a task with the id
\* of the message (a generated one when it has none) and the handler's next
\* step acknowledges with the id of the task; the turn of the queue that
\* takes the task sends the client, while it is registered, one message
\* and no other: an error with the id of the task when the params have no
\* url, otherwise the extract command with the id of the task; and whatever
\* the handling of a response sends is one extract_complete or error with
\* the id of the response, which is the id of the command when the client
\* echoes it.
C32_IdEndToEnd ==
    [][ /\ \A c \in Conns :
             /\ (Dispatches(c) /\ ExtractCommandIn(handled'.msg)) =>
                   LET task == task_queue'[Len(task_queue')]
                   IN /\ Len(task_queue') = Len(task_queue) + 1
                      /\ task.client_id = ClientUuid(c)
                      /\ handled'.msg.id # Absent => task.id = handled'.msg.id
                      /\ task.id # Absent
                      /\ conn'[c].state = "acking"
                      /\ conn'[c].job.id = task.id
             /\ (conn[c].state = "acking" /\ conn'[c].state # "acking") =>
                   SendsOnly(c, CommandReceived(conn[c].job.id, conn[c].job.command))
             /\ (Dispatches(c) /\ ExtractResponse(handled'.msg) /\ out' # out) =>
                   SendsTerminal(c, handled'.msg.id)
        /\ Processes =>
              LET task == task_queue[nProcessed + 1]
                  c == ConnOf(task.client_id)
              IN IF task.client_id \notin DOMAIN clients
                 THEN out' = out
                 ELSE IF Url(task.params) = Absent
                 THEN SendsOnly(c, ErrorOut(ErrNoUrl, task.id))
                 ELSE SendsOnly(c, SubRequest(task.id, task.command))
      ]_vars

\* C32 witness: a client sent an extract command with an id and was sent,
\* in this order, the acknowledgment, the extract command and
\* extract_complete, each with that id; all three reached it.
C32_Witness ==
    \E c \in Conns : \E i, j, k \in DOMAIN out[c] :
       /\ i < j /\ j < k
       /\ out[c][i] = [CommandReceived("c1", ExtractCommand) EXCEPT !.delivered = TRUE]
       /\ out[c][j] = [SubRequest("c1", ExtractCommand) EXCEPT !.delivered = TRUE]
       /\ out[c][k] = [ExtractComplete("c1") EXCEPT !.delivered = TRUE]
       /\ Len(task_queue) = 1
       /\ task_queue[1].id = "c1"

\* The messages with the id command_id and a type in T sent on connection c.
SentWith(c, T, command_id) ==
    {i \in DOMAIN out[c] : out[c][i].type \in T /\ out[c][i].id = command_id}

\* A command with the id command_id was forwarded to the client of
\* connection c and has not been completed.
Outstanding(c, command_id) ==
    Cardinality(SentWith(c, {"command"}, command_id)) >
       Cardinality(SentWith(c, {"extract_complete", "error"}, command_id))

\* C33 (as claimed): the step that handles a response whose id is not that
\* of a command forwarded to the client and still open (none was forwarded
\* with that id, or each one was completed) sends nothing, neither a
\* completion nor an error, and leaves the queue, the task lists and the
\* connections as they were.
C33_UnmatchedResponseDiscarded ==
    [][\A c \in Conns :
          (/\ Dispatches(c)
           /\ ExtractResponse(handled'.msg)
           /\ ~Outstanding(c, handled'.msg.id)) =>
             /\ out' = out
             /\ task_queue' = task_queue
             /\ TaskLists(clients') = TaskLists(clients)
             /\ conn' = conn
      ]_vars

\* The keys active_connections can have in mcp.
AdmittedKeys == {connect_id, get_browser_conn_id(connect_id)}

\* The step is the arrival of a connection request with conn_id on the
\* endpoint of websocket w.
Requested(w, conn_id) == Connect(w, conn_id) \/ ConnectRejected(w, conn_id)

StartsLoopAndListener == mcp_server'.starts # mcp_server.starts

\* This step is a call of start or stop that returned at its first test,
\* after a call of another kind.
ReturnsAtOnce ==
    /\ mcp_server'.call \in {"start returned", "stop returned"}
    /\ mcp_server'.call # mcp_server.call

====
